---- MODULE Spec2Model ----
(***************************************************************************)
(* Session admission and liveness control of CotizadorQ.                   *)
(*                                                                         *)
(* Backend (server.js): the sesiones table, upsertSession, validateSession,*)
(* authenticateToken, POST /api/login, POST /api/logout and the admin      *)
(* session endpoints.  Diagnostic columns of sesiones (device_id,          *)
(* ip_address, user_agent) take no part in any decision and are left out.  *)
(*                                                                         *)
(* Frontend (App.jsx): the list of sessions a browser keeps in             *)
(* localStorage, the heartbeat timer and the storage listener of its tabs. *)
(***************************************************************************)
EXTENDS Integers, Sequences, FiniteSets, TLC

VARIABLES
    sesiones,       \* the sesiones table: a set of rows
    now,            \* the clock (Date.now() / CURRENT_TIMESTAMP), in ticks
    last,           \* the last response sent (and the login_logs row written with it)
    revokedEver,    \* history: (user_id, session_id) pairs revoked at some time and
                    \* not presented at a successful login since
    procs,          \* the requests of a concurrent run, each with its local variables
    clients,        \* the browsers of the run: (account, x-session-id) pairs
    browser,        \* one browser seen from inside: its localStorage and its tabs
    expiredEver     \* history: (user_id, session_id) pairs rejected as expired and not
                    \* presented at a successful login since

vars == <<sesiones, now, last, revokedEver, procs, clients, browser, expiredEver>>

----------------------------------------------------------------------------
(* Bounds *)
MaxTime == 2
NumProcs == 2

(* Configuration.  SESSION_TTL_MIN and ADMIN_SESSION_TTL_MIN are read from  *)
(* the environment (defaults 10 and 43200 minutes).  The model counts time  *)
(* in steps of one tick and runs the configuration in which a client        *)
(* session is stale one tick after it was last seen and an admin session    *)
(* two ticks after: a row is fresh while last_seen >= now - TTL.            *)
SESSION_TTL_MIN == 0
ADMIN_SESSION_TTL_MIN == 1

Tokens == {"s1", "s2", "s3"}
NoSession == "none"          \* no x-session-id header (undefined, falsy)
Users == {1, 2}
NoUser == 0

\* the usuarios table: id -> role
usuarios == [u \in Users |-> IF u = 1 THEN "admin" ELSE "client"]

Procs == 1..NumProcs

\* the browsers taking part in a run: those of the admin account, or those of
\* the client account
Scopes ==
    { {<<1, "s1">>, <<1, "s2">>, <<1, "s3">>},
      {<<2, "s1">>, <<2, "s2">>} }

----------------------------------------------------------------------------
(* Role-driven configuration *)

\* String(role || '').toLowerCase()
toLowerCase(role) == IF role = "Admin" THEN "admin" ELSE role

getSessionTtlMsForRole(role) ==
    IF toLowerCase(role) = "admin" THEN ADMIN_SESSION_TTL_MIN ELSE SESSION_TTL_MIN

\* (mutation of limit: every role gets the limit of the admin)
limitOfAdmin(role) == 2

\* const limit = user?.role === 'admin' ? 2 : 1;
limit(role) == IF role = "admin" THEN 2 ELSE 1

----------------------------------------------------------------------------
(* The queries on sesiones *)

\* (mutation of PruneStale: the user_id = $1 condition is dropped)
PruneStaleAnyUser(db, uid, ttlDate) ==
    {r \in db : ~(r.last_seen < ttlDate)}

\* DELETE FROM sesiones WHERE user_id = $1 AND last_seen < $2
PruneStale(db, uid, ttlDate) ==
    {r \in db : ~(r.user_id = uid /\ r.last_seen < ttlDate)}

\* SELECT id FROM sesiones WHERE user_id = $1 AND session_id = $2
SelectExisting(db, uid, sid) ==
    {r \in db : r.user_id = uid /\ r.session_id = sid}

\* (mutation of RenewSession: revoked is not written)
RenewSessionKeepRevoked(db, id, t) ==
    {IF r.id = id THEN [r EXCEPT !.last_seen = t] ELSE r : r \in db}

\* UPDATE sesiones SET ..., last_seen = CURRENT_TIMESTAMP, revoked = false WHERE id = $4
RenewSession(db, id, t) ==
    {IF r.id = id THEN [r EXCEPT !.last_seen = t, !.revoked = FALSE] ELSE r : r \in db}

\* (mutation of SelectActive: the revoked = false condition is dropped)
SelectActiveAnyRevoked(db, uid, ttlDate) ==
    {r \in db : r.user_id = uid /\ r.last_seen >= ttlDate}

\* SELECT ... WHERE user_id = $1 AND revoked = false AND last_seen >= $2
SelectActive(db, uid, ttlDate) ==
    {r \in db : r.user_id = uid /\ r.revoked = FALSE /\ r.last_seen >= ttlDate}

\* (mutation of OrderByLastSeenAsc: ORDER BY last_seen DESC)
OrderByLastSeenDesc(S) ==
    {rows \in [1..Cardinality(S) -> S] :
        /\ \A i, j \in 1..Cardinality(S) : i # j => rows[i] # rows[j]
        /\ \A i, j \in 1..Cardinality(S) : i < j => rows[i].last_seen >= rows[j].last_seen}

\* ORDER BY last_seen ASC: every ordering of S by non-decreasing last_seen
\* (rows with equal last_seen come in an order the database chooses)
OrderByLastSeenAsc(S) ==
    {rows \in [1..Cardinality(S) -> S] :
        /\ \A i, j \in 1..Cardinality(S) : i # j => rows[i] # rows[j]
        /\ \A i, j \in 1..Cardinality(S) : i < j => rows[i].last_seen <= rows[j].last_seen}

\* UPDATE sesiones SET revoked = true WHERE id = $1
RevokeById(db, id) ==
    {IF r.id = id THEN [r EXCEPT !.revoked = TRUE] ELSE r : r \in db}

\* INSERT INTO sesiones (user_id, session_id, ...): id, started_at, last_seen
\* and revoked take their column defaults.  The SERIAL id is an opaque unique
\* key; a row of the same (user_id, session_id) can only be inserted again
\* after the DELETE removed the earlier one, which was then last seen (and
\* started) before now, so (user_id, session_id, started_at) is such a key.
NewSession(uid, sid, t) ==
    [id |-> <<uid, sid, t>>, user_id |-> uid, session_id |-> sid,
     started_at |-> t, last_seen |-> t, revoked |-> FALSE]

\* (mutation of UniqueViolation: the unique index is missing)
UniqueViolationNever(db, uid, sid) == FALSE

\* the unique index sesiones_user_session_idx rejects a second (user_id, session_id)
UniqueViolation(db, uid, sid) == SelectExisting(db, uid, sid) # {}

InsertSession(db, uid, sid, t) == db \cup {NewSession(uid, sid, t)}

\* (mutation of TouchSession: last_seen is not written)
TouchSessionNoWrite(db, id, t) == db

\* UPDATE sesiones SET last_seen = CURRENT_TIMESTAMP, ... WHERE id = $1
TouchSession(db, id, t) ==
    {IF r.id = id THEN [r EXCEPT !.last_seen = t] ELSE r : r \in db}

\* UPDATE sesiones SET revoked = true WHERE user_id = $1 AND session_id = $2
RevokeOwn(db, uid, sid) ==
    {IF r.user_id = uid /\ r.session_id = sid THEN [r EXCEPT !.revoked = TRUE] ELSE r : r \in db}

\* UPDATE sesiones SET revoked = true WHERE session_id = $1 RETURNING session_id
RevokeBySessionId(db, sid) ==
    {IF r.session_id = sid THEN [r EXCEPT !.revoked = TRUE] ELSE r : r \in db}

\* GET /api/sessions: rows with revoked = false and last_seen within the TTL
\* of the owner's role in usuarios
ListActiveSessions(db, t) ==
    {r \in db :
        /\ r.revoked = FALSE
        /\ r.last_seen >= (IF usuarios[r.user_id] = "admin"
                             THEN t - ADMIN_SESSION_TTL_MIN
                             ELSE t - SESSION_TTL_MIN)}

----------------------------------------------------------------------------
(* upsertSession: the admission controller *)

\* (mutation of EvictLoop: the evicted session_id is not pushed)
RECURSIVE EvictLoopNoPush(_, _, _, _)
EvictLoopNoPush(db, rows, lim, revokedSessions) ==
    IF Len(rows) >= lim
    THEN EvictLoopNoPush(RevokeById(db, Head(rows).id), Tail(rows), lim, revokedSessions)
    ELSE [db |-> db, revokedSessions |-> revokedSessions]

\* while (rows.length >= limit) { oldest = rows.shift(); revokedSessions.push(...); UPDATE ... }
RECURSIVE EvictLoop(_, _, _, _)
EvictLoop(db, rows, lim, revokedSessions) ==
    IF Len(rows) >= lim
    THEN EvictLoop(RevokeById(db, Head(rows).id), Tail(rows), lim,
                   Append(revokedSessions, Head(rows).session_id))
    ELSE [db |-> db, revokedSessions |-> revokedSessions]

\* upsertSession(user, req) run without interruption at time t: the set of
\* possible outcomes (one per ordering of equal last_seen values)
upsertSession(db, uid, role, sid, t) ==
    IF sid = NoSession
    THEN {[db |-> db, sessionId |-> NoSession, revokedSessions |-> <<>>]}
    ELSE LET ttlDate == t - getSessionTtlMsForRole(role)
             pruned == PruneStale(db, uid, ttlDate)
             existing == SelectExisting(pruned, uid, sid)
         IN  IF existing # {}
             THEN {[db |-> RenewSession(pruned, (CHOOSE r \in existing : TRUE).id, t),
                    sessionId |-> sid, revokedSessions |-> <<>>]}
             ELSE {LET ev == EvictLoop(pruned, rows, limit(role), <<>>)
                   IN  [db |-> InsertSession(ev.db, uid, sid, t), sessionId |-> sid,
                        revokedSessions |-> ev.revokedSessions]
                   : rows \in OrderByLastSeenAsc(SelectActive(pruned, uid, ttlDate))}

----------------------------------------------------------------------------
(* validateSession and authenticateToken: the Auth Gate *)

\* (mutation of validateReason: the last_seen check is dropped)
validateReasonNoExpiry(db, uid, sid, role, t) ==
    LET result == SelectExisting(db, uid, sid)
        session == CHOOSE r \in result : TRUE
    IN  IF sid = NoSession THEN "Sesion requerida"
        ELSE IF result = {} THEN "missing"
        ELSE IF session.revoked THEN "Sesion revocada"
        ELSE "ok"

\* the decision of validateSession(userId, sessionId, req, role) on db at time t
validateReason(db, uid, sid, role, t) ==
    LET ttlDate == t - getSessionTtlMsForRole(role)
        result == SelectExisting(db, uid, sid)
        session == CHOOSE r \in result : TRUE
    IN  IF sid = NoSession THEN "Sesion requerida"
        ELSE IF result = {} THEN "missing"
        ELSE IF session.revoked THEN "Sesion revocada"
        ELSE IF session.last_seen < ttlDate THEN "Sesion expirada"
        ELSE "ok"

\* (mutation of validateSession: the row of an expired session is deleted)
validateSessionPruning(db, uid, sid, role, t) ==
    LET reason == validateReason(db, uid, sid, role, t)
    IN  IF reason = "ok"
        THEN [ok |-> TRUE, reason |-> reason,
              db |-> TouchSession(db, (CHOOSE r \in SelectExisting(db, uid, sid) : TRUE).id, t)]
        ELSE IF reason = "Sesion expirada"
        THEN [ok |-> FALSE, reason |-> reason, db |-> db \ SelectExisting(db, uid, sid)]
        ELSE [ok |-> FALSE, reason |-> reason, db |-> db]

\* validateSession run without interruption: decision and the table afterwards
validateSession(db, uid, sid, role, t) ==
    LET reason == validateReason(db, uid, sid, role, t)
    IN  IF reason = "ok"
        THEN [ok |-> TRUE, reason |-> reason,
              db |-> TouchSession(db, (CHOOSE r \in SelectExisting(db, uid, sid) : TRUE).id, t)]
        ELSE [ok |-> FALSE, reason |-> reason, db |-> db]

\* authenticateToken run without interruption: auth is the Authorization
\* header ("none", "invalid", or "valid": a credential jwt.verify accepts, whose
\* payload carries the account's id and role)
authenticateToken(db, auth, uid, sid, t) ==
    IF auth = "none"
    THEN {[next |-> FALSE, status |-> 401, reason |-> "Token requerido", db |-> db]}
    ELSE IF auth = "invalid"
    THEN {[next |-> FALSE, status |-> 403, reason |-> "Token invalido", db |-> db]}
    ELSE LET validation == validateSession(db, uid, sid, usuarios[uid], t)
         IN  IF validation.ok
             THEN {[next |-> TRUE, status |-> 200, reason |-> "ok",
                    db |-> validation.db]}
             ELSE IF validation.reason = "missing"
             THEN {[next |-> TRUE, status |-> 200, reason |-> "missing",
                    db |-> up.db]
                   : up \in upsertSession(validation.db, uid, usuarios[uid], sid, t)}
             ELSE {[next |-> FALSE, status |-> 401, reason |-> validation.reason,
                    db |-> validation.db]}

\* requireAdmin: the role is read from usuarios at request time
requireAdmin(uid) == usuarios[uid] = "admin"

----------------------------------------------------------------------------
(* Responses and initial state *)

\* res.status(status).json(...): the status, the error text, and for a login
\* the session object; login_log is the success flag of the row that
\* recordLoginAttempt appended to login_logs while the request was handled
Response(status, error, session_id, revoked_sessions, login_log) ==
    [status |-> status, error |-> error, session_id |-> session_id,
     revoked_sessions |-> revoked_sessions, login_log |-> login_log]

NoResponse == Response(0, "none", NoSession, <<>>, "none")

\* the tabs of the browser, and the value getOrCreateSessionId generated for
\* it once and keeps in localStorage under 'sessionId'
Tabs == {"A", "B"}
BrowserSessionId == "s1"

\* a tab: the user of its React state (NoUser: not logged in) and whether a
\* storage event for 'activeSessionsByUser' waits for its listener
Tab(user, pending) == [user |-> user, pending |-> pending]

\* localStorage 'token' and 'user' (the account the credential was issued to,
\* NoUser: removed), localStorage 'activeSessionsByUser' (per user key the
\* entries {id, lastSeen}), and the tabs
ClosedBrowser ==
    [token |-> NoUser,
     sessions |-> [u \in Users |-> {}],
     tabs |-> [t \in Tabs |-> Tab(NoUser, FALSE)]]

IdleProc == [pc |-> "idle"]     \* a request that has not arrived yet
DoneProc == [pc |-> "done"]     \* a request that has been answered

PlainEndpoint == [kind |-> "plain", target |-> NoSession]

RevokedPairs(db) == {<<r.user_id, r.session_id>> : r \in {x \in db : x.revoked}}

Init ==
    /\ sesiones = {}
    /\ now = 0
    /\ last = NoResponse
    /\ revokedEver = {}
    /\ procs = [p \in Procs |-> IdleProc]
    /\ clients \in Scopes
    /\ browser = ClosedBrowser
    /\ expiredEver = {}

\* the x-session-id values account uid sends: those of its browsers, or none
SessionIdsOf(uid) == {c[2] : c \in {x \in clients : x[1] = uid}} \cup {NoSession}
Accounts == {c[1] : c \in clients}

----------------------------------------------------------------------------
(* Requests handled one at a time *)

\* passage of time
Tick ==
    /\ now < MaxTime
    /\ now' = now + 1
    /\ last' = NoResponse
    /\ UNCHANGED <<sesiones, revokedEver, procs, clients, browser, expiredEver>>

\* (mutation of LoginRejected: upsertSession runs before the password check)
LoginRejectedAfterUpsert(uid, sid) ==
    /\ IF uid = NoUser
       THEN sesiones' = sesiones
       ELSE \E up \in upsertSession(sesiones, uid, usuarios[uid], sid, now) : sesiones' = up.db
    /\ last' = Response(401, "Usuario o contrasena incorrectos", NoSession, <<>>, "failure")
    /\ UNCHANGED <<now, revokedEver, procs, clients, browser, expiredEver>>

\* POST /api/login with an unknown usuario (uid = NoUser) or a wrong password,
\* with or without an x-session-id header
LoginRejected(uid, sid) ==
    /\ last' = Response(401, "Usuario o contrasena incorrectos", NoSession, <<>>, "failure")
    /\ UNCHANGED <<sesiones, now, revokedEver, procs, clients, browser, expiredEver>>

\* POST /api/login with valid credentials
Login(uid, sid) ==
    /\ \E up \in upsertSession(sesiones, uid, usuarios[uid], sid, now) :
          /\ sesiones' = up.db
          /\ last' = Response(200, "none", up.sessionId, up.revokedSessions, "success")
    /\ revokedEver' = (revokedEver \ {<<uid, sid>>}) \cup RevokedPairs(sesiones')
    /\ UNCHANGED <<now, procs, clients, browser, expiredEver>>

Endpoints ==
    {[kind |-> k, target |-> NoSession] : k \in {"plain", "logout", "sessions"}}
        \cup {[kind |-> "revoke", target |-> t] : t \in Tokens}

\* the route handler behind authenticateToken: response and table afterwards
Handler(db, uid, sid, ep) ==
    CASE ep.kind = "plain" -> [status |-> 200, error |-> "none", db |-> db]
      [] ep.kind = "logout" ->
            IF sid = NoSession THEN [status |-> 400, error |-> "Sesion requerida", db |-> db]
            ELSE [status |-> 200, error |-> "none", db |-> RevokeOwn(db, uid, sid)]
      [] ep.kind = "sessions" ->
            IF requireAdmin(uid) THEN [status |-> 200, error |-> "none", db |-> db]
            ELSE [status |-> 403, error |-> "Permiso denegado", db |-> db]
      [] ep.kind = "revoke" ->
            IF ~requireAdmin(uid) THEN [status |-> 403, error |-> "Permiso denegado", db |-> db]
            ELSE IF {r \in db : r.session_id = ep.target} = {}
            THEN [status |-> 404, error |-> "Sesion no encontrada", db |-> db]
            ELSE [status |-> 200, error |-> "none", db |-> RevokeBySessionId(db, ep.target)]

\* a request to a route behind authenticateToken
Request(uid, auth, sid, ep) ==
    /\ \E gate \in authenticateToken(sesiones, auth, uid, sid, now) :
          IF gate.next
          THEN LET h == Handler(gate.db, uid, sid, ep)
               IN  /\ sesiones' = h.db
                   /\ last' = Response(h.status, h.error, NoSession, <<>>, "none")
          ELSE /\ sesiones' = gate.db
               /\ last' = Response(gate.status, gate.reason, NoSession, <<>>, "none")
    /\ revokedEver' = revokedEver \cup RevokedPairs(sesiones')
    /\ UNCHANGED <<now, procs, clients, browser, expiredEver>>

Next ==
    \/ Tick
    \/ LoginRejected(NoUser, NoSession)
    \/ \E uid \in Accounts : \E sid \in SessionIdsOf(uid) : LoginRejected(uid, sid)
    \/ \E uid \in Accounts : \E sid \in SessionIdsOf(uid) : Login(uid, sid)
    \/ \E uid \in Accounts : \E auth \in {"none", "invalid"} :
          Request(uid, auth, NoSession, [kind |-> "plain", target |-> NoSession])
    \/ \E uid \in Accounts : \E sid \in SessionIdsOf(uid) : \E ep \in Endpoints :
          Request(uid, "valid", sid, ep)

Spec == Init /\ [][Next]_vars

----------------------------------------------------------------------------
(* Requests during which a query on the database throws.  pool.query rejects, *)
(* the await throws, and the statements issued before stay in effect (there  *)
(* is no transaction).                                                       *)

\* the queries of validateSession and of upsertSession, and the SELECT on
\* usuarios of POST /api/login
GateQueries == {"select", "touch", "delete", "lookup", "renew", "active", "evict", "insert"}
LoginQueries == {"usuarios", "delete", "lookup", "renew", "active", "evict", "insert"}

\* the table after the first k turns of the eviction loop
RECURSIVE RevokeFirst(_, _, _)
RevokeFirst(db, rows, k) ==
    IF k = 0 THEN db ELSE RevokeFirst(RevokeById(db, Head(rows).id), Tail(rows), k - 1)

\* upsertSession in which query q throws: the tables it can leave behind
\* (none if this call does not issue q)
upsertSessionThrows(db, uid, role, sid, t, q) ==
    IF sid = NoSession THEN {}
    ELSE LET ttlDate == t - getSessionTtlMsForRole(role)
             pruned == PruneStale(db, uid, ttlDate)
             existing == SelectExisting(pruned, uid, sid)
             orders == OrderByLastSeenAsc(SelectActive(pruned, uid, ttlDate))
         IN  CASE q = "delete" -> {db}
               [] q = "lookup" -> {pruned}
               [] q = "renew" -> IF existing # {} THEN {pruned} ELSE {}
               [] q = "active" -> IF existing = {} THEN {pruned} ELSE {}
               [] q = "evict" ->
                     IF existing # {} THEN {}
                     ELSE UNION {{RevokeFirst(pruned, rows, k - 1)
                                     : k \in 1..(Len(rows) - limit(role) + 1)}
                                 : rows \in orders}
               [] q = "insert" ->
                     IF existing # {} THEN {}
                     ELSE {EvictLoop(pruned, rows, limit(role), <<>>).db : rows \in orders}
               [] OTHER -> {}

\* (mutation of authenticateTokenThrows: the catch lets the request through)
authenticateTokenFailOpen(db, uid, sid, t, q) ==
    LET reason == validateReason(db, uid, sid, usuarios[uid], t)
        left == IF q = "select" THEN (IF sid # NoSession THEN {db} ELSE {})
                ELSE IF q = "touch" THEN (IF reason = "ok" THEN {db} ELSE {})
                ELSE IF reason = "missing"
                THEN upsertSessionThrows(db, uid, usuarios[uid], sid, t, q)
                ELSE {}
    IN  {[next |-> TRUE, status |-> 200, reason |-> "ok", db |-> x] : x \in left}

\* authenticateToken with a valid credential in which query q throws: the
\* catch answers 403 and next() is not called
authenticateTokenThrows(db, uid, sid, t, q) ==
    LET reason == validateReason(db, uid, sid, usuarios[uid], t)
        left == IF q = "select" THEN (IF sid # NoSession THEN {db} ELSE {})
                ELSE IF q = "touch" THEN (IF reason = "ok" THEN {db} ELSE {})
                ELSE IF reason = "missing"
                THEN upsertSessionThrows(db, uid, usuarios[uid], sid, t, q)
                ELSE {}
    IN  {[next |-> FALSE, status |-> 403, reason |-> "Token invalido", db |-> x] : x \in left}

\* a request to a route behind authenticateToken during which query q of the
\* gate throws
RequestThrows(uid, sid, ep, q) ==
    /\ \E gate \in authenticateTokenThrows(sesiones, uid, sid, now, q) :
          IF gate.next
          THEN LET h == Handler(gate.db, uid, sid, ep)
               IN  /\ sesiones' = h.db
                   /\ last' = Response(h.status, h.error, NoSession, <<>>, "none")
          ELSE /\ sesiones' = gate.db
               /\ last' = Response(gate.status, gate.reason, NoSession, <<>>, "none")
    /\ revokedEver' = revokedEver \cup RevokedPairs(sesiones')
    /\ UNCHANGED <<now, procs, clients, browser, expiredEver>>

\* POST /api/login with valid credentials during which query q throws: the
\* catch answers 500; neither recordLoginAttempt nor jwt.sign is reached
LoginThrows(uid, sid, q) ==
    /\ \E left \in (IF q = "usuarios" THEN {sesiones}
                     ELSE upsertSessionThrows(sesiones, uid, usuarios[uid], sid, now, q)) :
          sesiones' = left
    /\ last' = Response(500, "Error del servidor", NoSession, <<>>, "none")
    /\ revokedEver' = revokedEver \cup RevokedPairs(sesiones')
    /\ UNCHANGED <<now, procs, clients, browser, expiredEver>>

\* the routes requested in the runs with failing queries
ThrowEndpoints == {ep \in Endpoints : ep.kind \in {"plain", "logout"}}

NextThrows ==
    \/ Next
    \/ \E uid \in Accounts : \E sid \in SessionIdsOf(uid) : \E ep \in ThrowEndpoints :
          \E q \in GateQueries : RequestThrows(uid, sid, ep, q)
    \/ \E uid \in Accounts : \E sid \in SessionIdsOf(uid) :
          \E q \in LoginQueries : LoginThrows(uid, sid, q)

\* the runs with failing queries: the browsers of the client account
ThrowScopes == { {<<2, "s1">>, <<2, "s2">>} }

InitThrows ==
    /\ sesiones = {}
    /\ now = 0
    /\ last = NoResponse
    /\ revokedEver = {}
    /\ procs = [p \in Procs |-> IdleProc]
    /\ clients \in ThrowScopes
    /\ browser = ClosedBrowser
    /\ expiredEver = {}

SpecThrows == InitThrows /\ [][NextThrows]_vars

\* runs of the client account with three browsers
OverScopes == { {<<2, "s1">>, <<2, "s2">>, <<2, "s3">>} }

InitOver ==
    /\ sesiones = {}
    /\ now = 0
    /\ last = NoResponse
    /\ revokedEver = {}
    /\ procs = [p \in Procs |-> IdleProc]
    /\ clients \in OverScopes
    /\ browser = ClosedBrowser
    /\ expiredEver = {}

SpecOver == InitOver /\ [][Next]_vars

\* runs in which browsers of both accounts take part, one of each carrying
\* the same x-session-id
MultiScopes == { {<<1, "s1">>, <<2, "s1">>, <<2, "s2">>} }

InitMulti ==
    /\ sesiones = {}
    /\ now = 0
    /\ last = NoResponse
    /\ revokedEver = {}
    /\ procs = [p \in Procs |-> IdleProc]
    /\ clients \in MultiScopes
    /\ browser = ClosedBrowser
    /\ expiredEver = {}

SpecMulti == InitMulti /\ [][Next]_vars

----------------------------------------------------------------------------
(* Requests handled concurrently: every query on sesiones is one step, and   *)
(* steps of different requests interleave.  A run has NumProcs requests; a   *)
(* request in flight keeps its local variables in its slot of procs.         *)

NoId == <<>>

Proc(pc, op, uid, sid, ep, ttlDate, id, rows, revokedSessions) ==
    [pc |-> pc, op |-> op, uid |-> uid, sid |-> sid, ep |-> ep, ttlDate |-> ttlDate,
     id |-> id, rows |-> rows, revokedSessions |-> revokedSessions]

\* requests arrive in the order of their slots
FreeSlot(p) == procs[p].pc = "idle" /\ \A q \in 1..(p - 1) : procs[q].pc # "idle"

\* the steps that write sesiones record the revocations they leave behind
Revocations == revokedEver' = revokedEver \cup RevokedPairs(sesiones')

\* upsertSession has returned to its caller: POST /api/login answers; in
\* authenticateToken next() runs the route handler
Returned(p) ==
    LET me == procs[p]
    IN  IF me.op = "login"
        THEN /\ last' = Response(200, "none", me.sid, me.revokedSessions, "success")
             /\ procs' = [procs EXCEPT ![p] = DoneProc]
        ELSE IF me.ep.kind = "plain"
        THEN /\ last' = Response(200, "none", NoSession, <<>>, "none")
             /\ procs' = [procs EXCEPT ![p] = DoneProc]
        ELSE /\ last' = last
             /\ procs' = [procs EXCEPT ![p] = Proc("handler", me.op, me.uid, me.sid, me.ep,
                                                    0, NoId, <<>>, <<>>)]

\* POST /api/login with valid credentials, up to the DELETE of upsertSession
BeginLogin(p, uid, sid) ==
    /\ FreeSlot(p)
    /\ sid # NoSession
    /\ LET ttlDate == now - getSessionTtlMsForRole(usuarios[uid])
       IN  /\ sesiones' = PruneStale(sesiones, uid, ttlDate)
           /\ procs' = [procs EXCEPT ![p] = Proc("lookup", "login", uid, sid, PlainEndpoint,
                                                  ttlDate, NoId, <<>>, <<>>)]
    /\ UNCHANGED <<now, last, revokedEver, clients, browser, expiredEver>>

\* authenticateToken with a valid credential, up to the SELECT of validateSession
BeginRequest(p, uid, sid, ep) ==
    /\ FreeSlot(p)
    /\ LET reason == validateReason(sesiones, uid, sid, usuarios[uid], now)
       IN  IF reason = "ok"
           THEN /\ procs' = [procs EXCEPT ![p] =
                       Proc("touch", "request", uid, sid, ep, 0,
                            (CHOOSE r \in SelectExisting(sesiones, uid, sid) : TRUE).id,
                            <<>>, <<>>)]
                /\ last' = last
           ELSE IF reason = "missing"
           THEN /\ procs' = [procs EXCEPT ![p] =
                       Proc("prune", "request", uid, sid, ep, 0, NoId, <<>>, <<>>)]
                /\ last' = last
           ELSE /\ procs' = [procs EXCEPT ![p] = DoneProc]
                /\ last' = Response(401, reason, NoSession, <<>>, "none")
    /\ UNCHANGED <<sesiones, now, revokedEver, clients, browser, expiredEver>>

\* validateSession: the UPDATE that touches the session
Touch(p) ==
    /\ procs[p].pc = "touch"
    /\ sesiones' = TouchSession(sesiones, procs[p].id, now)
    /\ Returned(p)
    /\ UNCHANGED <<now, revokedEver, clients, browser, expiredEver>>

\* upsertSession called by authenticateToken: the DELETE
Prune(p) ==
    /\ procs[p].pc = "prune"
    /\ LET me == procs[p]
           ttlDate == now - getSessionTtlMsForRole(usuarios[me.uid])
       IN  /\ sesiones' = PruneStale(sesiones, me.uid, ttlDate)
           /\ procs' = [procs EXCEPT ![p] = [me EXCEPT !.pc = "lookup", !.ttlDate = ttlDate]]
    /\ UNCHANGED <<now, last, revokedEver, clients, browser, expiredEver>>

\* upsertSession: SELECT id ... WHERE user_id = $1 AND session_id = $2
Lookup(p) ==
    /\ procs[p].pc = "lookup"
    /\ LET me == procs[p]
           existing == SelectExisting(sesiones, me.uid, me.sid)
       IN  procs' = [procs EXCEPT ![p] =
              IF existing # {}
              THEN [me EXCEPT !.pc = "renew", !.id = (CHOOSE r \in existing : TRUE).id]
              ELSE [me EXCEPT !.pc = "active"]]
    /\ UNCHANGED <<sesiones, now, last, revokedEver, clients, browser, expiredEver>>

\* upsertSession: the UPDATE that renews the existing row
Renew(p) ==
    /\ procs[p].pc = "renew"
    /\ sesiones' = RenewSession(sesiones, procs[p].id, now)
    /\ Returned(p)
    /\ Revocations
    /\ UNCHANGED <<now, clients, browser, expiredEver>>

\* upsertSession: the SELECT of the active rows
ReadActive(p) ==
    /\ procs[p].pc = "active"
    /\ LET me == procs[p]
       IN  \E rows \in OrderByLastSeenAsc(SelectActive(sesiones, me.uid, me.ttlDate)) :
              procs' = [procs EXCEPT ![p] =
                 [me EXCEPT !.rows = [i \in 1..Len(rows) |->
                                         [id |-> rows[i].id, session_id |-> rows[i].session_id]],
                            !.pc = IF Len(rows) >= limit(usuarios[me.uid])
                                   THEN "evict" ELSE "insert"]]
    /\ UNCHANGED <<sesiones, now, last, revokedEver, clients, browser, expiredEver>>

\* upsertSession: one turn of the eviction loop
Evict(p) ==
    /\ procs[p].pc = "evict"
    /\ LET me == procs[p]
           oldest == Head(me.rows)
       IN  /\ sesiones' = RevokeById(sesiones, oldest.id)
           /\ procs' = [procs EXCEPT ![p] =
                 [me EXCEPT !.rows = Tail(me.rows),
                            !.revokedSessions = Append(me.revokedSessions, oldest.session_id),
                            !.pc = IF Len(Tail(me.rows)) >= limit(usuarios[me.uid])
                                   THEN "evict" ELSE "insert"]]
    /\ Revocations
    /\ UNCHANGED <<now, last, clients, browser, expiredEver>>

\* upsertSession: the INSERT, which the unique index may reject; the error
\* is caught by POST /api/login (500) or by authenticateToken (403)
Insert(p) ==
    /\ procs[p].pc = "insert"
    /\ LET me == procs[p]
       IN  IF UniqueViolation(sesiones, me.uid, me.sid)
           THEN /\ sesiones' = sesiones
                /\ procs' = [procs EXCEPT ![p] = DoneProc]
                /\ last' = IF me.op = "login"
                           THEN Response(500, "Error del servidor", NoSession, <<>>, "none")
                           ELSE Response(403, "Token invalido", NoSession, <<>>, "none")
           ELSE /\ sesiones' = InsertSession(sesiones, me.uid, me.sid, now)
                /\ Returned(p)
    /\ UNCHANGED <<now, revokedEver, clients, browser, expiredEver>>

\* the query of the route handler
HandlerStep(p) ==
    /\ procs[p].pc = "handler"
    /\ LET me == procs[p]
           h == Handler(sesiones, me.uid, me.sid, me.ep)
       IN  /\ sesiones' = h.db
           /\ last' = Response(h.status, h.error, NoSession, <<>>, "none")
    /\ procs' = [procs EXCEPT ![p] = DoneProc]
    /\ Revocations
    /\ UNCHANGED <<now, clients, browser, expiredEver>>

ConcEndpoints == {PlainEndpoint, [kind |-> "logout", target |-> NoSession]}

NextConc ==
    \/ Tick
    \/ \E p \in Procs : \E c \in clients : BeginLogin(p, c[1], c[2])
    \/ \E p \in Procs : \E c \in clients : \E ep \in ConcEndpoints :
          BeginRequest(p, c[1], c[2], ep)
    \/ \E p \in Procs : Touch(p)
    \/ \E p \in Procs : Prune(p)
    \/ \E p \in Procs : Lookup(p)
    \/ \E p \in Procs : Renew(p)
    \/ \E p \in Procs : ReadActive(p)
    \/ \E p \in Procs : Evict(p)
    \/ \E p \in Procs : Insert(p)
    \/ \E p \in Procs : HandlerStep(p)

\* the runs with concurrent requests: the browsers of the client account
ConcScopes == { {<<2, "s1">>, <<2, "s2">>} }

\* a concurrent run starts from the empty table or from the table left by
\* one login of the account
InitConc ==
    /\ sesiones \in {{}, {NewSession(2, "s1", 0)}}
    /\ now = 0
    /\ last = NoResponse
    /\ revokedEver = {}
    /\ procs = [p \in Procs |-> IdleProc]
    /\ clients \in ConcScopes
    /\ browser = ClosedBrowser
    /\ expiredEver = {}

SpecConc == InitConc /\ [][NextConc]_vars

\* concurrent admissions only: every request is a login, or a request whose
\* token has no row, and carries a token that has no row and that no other
\* request in flight carries
UnseenToken(p, uid, sid) ==
    /\ SelectExisting(sesiones, uid, sid) = {}
    /\ \A q \in Procs \ {p} :
          IF procs[q].pc \in {"idle", "done"} THEN TRUE
          ELSE procs[q].uid # uid \/ procs[q].sid # sid

NextAdmit ==
    \/ Tick
    \/ \E p \in Procs : \E c \in clients :
          UnseenToken(p, c[1], c[2]) /\ BeginLogin(p, c[1], c[2])
    \/ \E p \in Procs : \E c \in clients :
          UnseenToken(p, c[1], c[2]) /\ BeginRequest(p, c[1], c[2], PlainEndpoint)
    \/ \E p \in Procs : Prune(p)
    \/ \E p \in Procs : Lookup(p)
    \/ \E p \in Procs : ReadActive(p)
    \/ \E p \in Procs : Evict(p)
    \/ \E p \in Procs : Insert(p)

SpecAdmit == InitConc /\ [][NextAdmit]_vars

\* touches and admissions of two accounts, interleaved query by query: a
\* browser of the admin account and the browsers of the client account, one
\* of which carries the same x-session-id as the admin's
CrossScopes == { {<<1, "s1">>, <<2, "s1">>, <<2, "s2">>} }

\* a run starts from the empty table or from the table left by one login of
\* each account with the shared token
InitCross ==
    /\ sesiones \in {{}, {NewSession(1, "s1", 0), NewSession(2, "s1", 0)}}
    /\ now = 0
    /\ last = NoResponse
    /\ revokedEver = {}
    /\ procs = [p \in Procs |-> IdleProc]
    /\ clients \in CrossScopes
    /\ browser = ClosedBrowser
    /\ expiredEver = {}

NextCross ==
    \/ Tick
    \/ \E p \in Procs : \E c \in clients : BeginLogin(p, c[1], c[2])
    \/ \E p \in Procs : \E c \in clients : BeginRequest(p, c[1], c[2], PlainEndpoint)
    \/ \E p \in Procs : Touch(p)
    \/ \E p \in Procs : Prune(p)
    \/ \E p \in Procs : Lookup(p)
    \/ \E p \in Procs : Renew(p)
    \/ \E p \in Procs : ReadActive(p)
    \/ \E p \in Procs : Evict(p)
    \/ \E p \in Procs : Insert(p)

SpecCross == InitCross /\ [][NextCross]_vars

----------------------------------------------------------------------------
(* The browser (App.jsx): the list of sessions kept per user in localStorage *)
(* under 'activeSessionsByUser', shared by the tabs, with the heartbeat       *)
(* timer and the storage listener of every logged-in tab.  An entry is        *)
(* {id, lastSeen}; deviceId, role, userAgent and startedAt of an entry take   *)
(* no part in any decision and are left out.                                  *)

\* SESSION_TTL_MS (10 minutes), in ticks: an entry is kept while
\* now - lastSeen < SESSION_TTL_MS, so it outlives one tick without heartbeat
SESSION_TTL_MS == 2

\* (sessions || []).filter(s => ... (now - s.lastSeen) < SESSION_TTL_MS)
pruneSessions(sessions, t) == {s \in sessions : (t - s.lastSeen) < SESSION_TTL_MS}

\* registerSessionForUser(user): the values 'activeSessionsByUser' can take
\* (one per choice among entries of equal lastSeen at the head of the sort)
registerSessionForUser(all, uid, role, sessionId, t) ==
    LET currentList == pruneSessions(all[uid], t)
        existing == {x \in currentList : x.id = sessionId}
        entry == [id |-> sessionId, lastSeen |-> t]
    IN  IF existing # {}
        THEN {[all EXCEPT ![uid] = (currentList \ existing) \cup {entry}]}
        ELSE IF Cardinality(currentList) >= limit(toLowerCase(role))
        THEN {[all EXCEPT ![uid] = (currentList \ {oldest}) \cup {entry}]
                 : oldest \in {x \in currentList :
                                  \A y \in currentList : x.lastSeen <= y.lastSeen}}
        ELSE {[all EXCEPT ![uid] = currentList \cup {entry}]}

\* updateSessionHeartbeat(user): the value returned and 'activeSessionsByUser'
\* afterwards; nothing is sent to the server
updateSessionHeartbeat(all, uid, sessionId, t) ==
    LET list == pruneSessions(all[uid], t)
    IN  IF \E x \in list : x.id = sessionId
        THEN [alive |-> TRUE,
              sessions |-> [all EXCEPT ![uid] =
                               {IF x.id = sessionId THEN [x EXCEPT !.lastSeen = t] ELSE x
                                   : x \in list}]]
        ELSE [alive |-> FALSE, sessions |-> all]

\* (mutation of isSessionActive: the list is not consulted)
isSessionActiveAlways(all, uid, sessionId, t) == TRUE

\* isSessionActive(user)
isSessionActive(all, uid, sessionId, t) ==
    \E x \in pruneSessions(all[uid], t) : x.id = sessionId

\* clearSessionForUser(user)
clearSessionForUser(all, uid, sessionId) ==
    [all EXCEPT ![uid] = {x \in all[uid] : x.id # sessionId}]

\* a setItem that changes 'activeSessionsByUser' raises a storage event in
\* every other tab; a tab listens while it is logged in
StorageEvents(tabs, writer, written, old) ==
    [t \in Tabs |-> IF t # writer /\ written # old /\ tabs[t].user # NoUser
                    THEN [tabs[t] EXCEPT !.pending = TRUE]
                    ELSE tabs[t]]

\* authAPI.logout(): POST /api/logout through fetchWithAuth, with the token
\* and the sessionId found in localStorage
apiLogout ==
    IF browser.token = NoUser
    THEN /\ sesiones' = sesiones
         /\ last' = Response(401, "Token requerido", NoSession, <<>>, "none")
         /\ revokedEver' = revokedEver
    ELSE /\ \E gate \in authenticateToken(sesiones, "valid", browser.token,
                                          BrowserSessionId, now) :
               IF gate.next
               THEN LET h == Handler(gate.db, browser.token, BrowserSessionId,
                                     [kind |-> "logout", target |-> NoSession])
                    IN  /\ sesiones' = h.db
                        /\ last' = Response(h.status, h.error, NoSession, <<>>, "none")
               ELSE /\ sesiones' = gate.db
                    /\ last' = Response(gate.status, gate.reason, NoSession, <<>>, "none")
         /\ revokedEver' = revokedEver \cup RevokedPairs(sesiones')

\* handleLogout in tab: the entry is cleared, the server is told, token and
\* user are removed from localStorage and the tab shows the login page
handleLogout(tab) ==
    LET cleared == clearSessionForUser(browser.sessions, browser.tabs[tab].user,
                                       BrowserSessionId)
    IN  /\ apiLogout
        /\ browser' = [token |-> NoUser,
                       sessions |-> cleared,
                       tabs |-> [StorageEvents(browser.tabs, tab, cleared, browser.sessions)
                                    EXCEPT ![tab] = Tab(NoUser, FALSE)]]

\* handleLogin in a tab that shows the login page, with valid credentials
TabLogin(tab, uid) ==
    /\ browser.tabs[tab].user = NoUser
    /\ \E up \in upsertSession(sesiones, uid, usuarios[uid], BrowserSessionId, now) :
          /\ sesiones' = up.db
          /\ last' = Response(200, "none", up.sessionId, up.revokedSessions, "success")
    /\ revokedEver' = (revokedEver \ {<<uid, BrowserSessionId>>}) \cup RevokedPairs(sesiones')
    /\ \E reg \in registerSessionForUser(browser.sessions, uid, usuarios[uid],
                                          BrowserSessionId, now) :
          browser' = [token |-> uid,
                      sessions |-> reg,
                      tabs |-> [StorageEvents(browser.tabs, tab, reg, browser.sessions)
                                   EXCEPT ![tab] = Tab(uid, FALSE)]]
    /\ UNCHANGED <<now, procs, clients, expiredEver>>

\* a tab is opened or reloaded while token and user are in localStorage
PageLoad(tab) ==
    /\ browser.tabs[tab].user = NoUser
    /\ browser.token # NoUser
    /\ \E reg \in registerSessionForUser(browser.sessions, browser.token,
                                          usuarios[browser.token], BrowserSessionId, now) :
          browser' = [browser EXCEPT
                         !.sessions = reg,
                         !.tabs = [StorageEvents(browser.tabs, tab, reg, browser.sessions)
                                      EXCEPT ![tab] = Tab(browser.token, FALSE)]]
    /\ UNCHANGED <<sesiones, now, last, revokedEver, procs, clients, expiredEver>>

\* the user presses logout in a logged-in tab
TabLogout(tab) ==
    /\ browser.tabs[tab].user # NoUser
    /\ handleLogout(tab)
    /\ UNCHANGED <<now, procs, clients, expiredEver>>

\* the heartbeat timer of a logged-in tab fires
HeartbeatTick(tab) ==
    /\ browser.tabs[tab].user # NoUser
    /\ LET hb == updateSessionHeartbeat(browser.sessions, browser.tabs[tab].user,
                                        BrowserSessionId, now)
       IN  IF hb.alive
           THEN /\ browser' = [browser EXCEPT
                                  !.sessions = hb.sessions,
                                  !.tabs = StorageEvents(browser.tabs, tab, hb.sessions,
                                                         browser.sessions)]
                /\ UNCHANGED <<sesiones, last, revokedEver>>
           ELSE handleLogout(tab)
    /\ UNCHANGED <<now, procs, clients, expiredEver>>

\* the storage listener of a logged-in tab runs
StorageEvent(tab) ==
    /\ browser.tabs[tab].user # NoUser
    /\ browser.tabs[tab].pending
    /\ IF isSessionActive(browser.sessions, browser.tabs[tab].user, BrowserSessionId, now)
       THEN /\ browser' = [browser EXCEPT !.tabs[tab].pending = FALSE]
            /\ UNCHANGED <<sesiones, last, revokedEver>>
       ELSE handleLogout(tab)
    /\ UNCHANGED <<now, procs, clients, expiredEver>>

NextTabs ==
    \/ Tick
    \/ \E tab \in Tabs : \E uid \in Accounts : TabLogin(tab, uid)
    \/ \E tab \in Tabs : PageLoad(tab)
    \/ \E tab \in Tabs : TabLogout(tab)
    \/ \E tab \in Tabs : HeartbeatTick(tab)
    \/ \E tab \in Tabs : StorageEvent(tab)

\* both accounts are used from the browser
TabScopes == { {<<1, BrowserSessionId>>, <<2, BrowserSessionId>>} }

InitTabs ==
    /\ sesiones = {}
    /\ now = 0
    /\ last = NoResponse
    /\ revokedEver = {}
    /\ procs = [p \in Procs |-> IdleProc]
    /\ clients \in TabScopes
    /\ browser = ClosedBrowser
    /\ expiredEver = {}

SpecTabs == InitTabs /\ [][NextTabs]_vars

\* a logged-in tab sends a request through fetchWithAuth (GET /api/productos)
\* with the token and the sessionId found in localStorage; on 401 or 403
\* fetchWithAuth removes token and user and reloads the page, which then
\* shows the login page
TabRequest(tab) ==
    /\ browser.tabs[tab].user # NoUser
    /\ IF browser.token = NoUser
       THEN /\ sesiones' = sesiones
            /\ last' = Response(401, "Token requerido", NoSession, <<>>, "none")
       ELSE \E gate \in authenticateToken(sesiones, "valid", browser.token,
                                          BrowserSessionId, now) :
               IF gate.next
               THEN LET h == Handler(gate.db, browser.token, BrowserSessionId, PlainEndpoint)
                    IN  /\ sesiones' = h.db
                        /\ last' = Response(h.status, h.error, NoSession, <<>>, "none")
               ELSE /\ sesiones' = gate.db
                    /\ last' = Response(gate.status, gate.reason, NoSession, <<>>, "none")
    /\ revokedEver' = revokedEver \cup RevokedPairs(sesiones')
    /\ browser' = IF last'.status \in {401, 403}
                  THEN [browser EXCEPT !.token = NoUser, !.tabs[tab] = Tab(NoUser, FALSE)]
                  ELSE browser
    /\ UNCHANGED <<now, procs, clients, expiredEver>>

\* the x-session-id of another browser, from which the accounts log in too
OtherSessionId == "s2"

NextDevices ==
    \/ NextTabs
    \/ \E tab \in Tabs : TabRequest(tab)
    \/ \E uid \in Accounts : Login(uid, OtherSessionId)

\* the client account is used from the browser and from the other one
DeviceScopes == { {<<2, BrowserSessionId>>} }

InitDevices ==
    /\ sesiones = {}
    /\ now = 0
    /\ last = NoResponse
    /\ revokedEver = {}
    /\ procs = [p \in Procs |-> IdleProc]
    /\ clients \in DeviceScopes
    /\ browser = ClosedBrowser
    /\ expiredEver = {}

SpecDevices == InitDevices /\ [][NextDevices]_vars

----------------------------------------------------------------------------
(* Requests handled one at a time, with the record of the tokens that the   *)
(* Auth Gate has rejected as expired.                                        *)

\* a request to a route behind authenticateToken; a 401 'Sesion expirada'
\* is recorded
ExpiryRequest(uid, sid, ep) ==
    /\ \E gate \in authenticateToken(sesiones, "valid", uid, sid, now) :
          IF gate.next
          THEN LET h == Handler(gate.db, uid, sid, ep)
               IN  /\ sesiones' = h.db
                   /\ last' = Response(h.status, h.error, NoSession, <<>>, "none")
          ELSE /\ sesiones' = gate.db
               /\ last' = Response(gate.status, gate.reason, NoSession, <<>>, "none")
    /\ revokedEver' = revokedEver \cup RevokedPairs(sesiones')
    /\ expiredEver' = IF last'.error = "Sesion expirada"
                      THEN expiredEver \cup {<<uid, sid>>}
                      ELSE expiredEver
    /\ UNCHANGED <<now, procs, clients, browser>>

\* POST /api/login with valid credentials
ExpiryLogin(uid, sid) ==
    /\ \E up \in upsertSession(sesiones, uid, usuarios[uid], sid, now) :
          /\ sesiones' = up.db
          /\ last' = Response(200, "none", up.sessionId, up.revokedSessions, "success")
    /\ revokedEver' = (revokedEver \ {<<uid, sid>>}) \cup RevokedPairs(sesiones')
    /\ expiredEver' = expiredEver \ {<<uid, sid>>}
    /\ UNCHANGED <<now, procs, clients, browser>>

NextExpiry ==
    \/ Tick
    \/ \E uid \in Accounts : \E sid \in SessionIdsOf(uid) : ExpiryLogin(uid, sid)
    \/ \E uid \in Accounts : \E sid \in SessionIdsOf(uid) : \E ep \in ThrowEndpoints :
          ExpiryRequest(uid, sid, ep)

\* the browsers of the client account
ExpiryScopes == { {<<2, "s1">>, <<2, "s2">>} }

InitExpiry ==
    /\ sesiones = {}
    /\ now = 0
    /\ last = NoResponse
    /\ revokedEver = {}
    /\ procs = [p \in Procs |-> IdleProc]
    /\ clients \in ExpiryScopes
    /\ browser = ClosedBrowser
    /\ expiredEver = {}

SpecExpiry == InitExpiry /\ [][NextExpiry]_vars

----------------------------------------------------------------------------
(* Vocabulary of the properties *)

TTL(uid) == getSessionTtlMsForRole(usuarios[uid])
RoleLimit(uid) == IF usuarios[uid] = "admin" THEN 2 ELSE 1

IsActive(r, t) == r.revoked = FALSE /\ r.last_seen >= t - TTL(r.user_id)
ActiveRows(db, uid, t) == {r \in db : r.user_id = uid /\ IsActive(r, t)}
RowsOf(db, uid, sid) == {r \in db : r.user_id = uid /\ r.session_id = sid}

\* rows of db that are not revoked in db and are revoked in db2
NewlyRevoked(db, db2) ==
    {r \in db : r.revoked = FALSE /\ \E q \in db2 : q.id = r.id /\ q.revoked = TRUE}

\* the step admits (uid, sid): a login, or a request that only passes the gate
AdmissionStep(uid, sid) ==
    Login(uid, sid) \/ Request(uid, "valid", sid, PlainEndpoint)

SeqToSet(q) == {q[i] : i \in 1..Len(q)}

----------------------------------------------------------------------------
(* C1: for every account the number of rows with revoked = false and
   last_seen within TTL(role) never exceeds limit(role), in every state
   reached by requests handled one at a time. *)
C1_BoundInvariant ==
    \A uid \in Accounts : Cardinality(ActiveRows(sesiones, uid, now)) <= RoleLimit(uid)

(* C2: when admissions carrying distinct tokens without a row run
   concurrently for one account, interleaved at the granularity of the queries
   of upsertSession, the account never has more than limit(role) rows that
   are non-revoked and fresh. *)
C2_ConcurrentBound ==
    \A uid \in Accounts :
        Cardinality({r \in sesiones : /\ r.user_id = uid
                                      /\ r.revoked = FALSE
                                      /\ r.last_seen >= now - TTL(uid)}) <= RoleLimit(uid)

(* C3: once a row has revoked = true, no step sets it back to false. *)
C3_RevokedIsTerminal ==
    [][\A r \in sesiones : r.revoked = TRUE =>
          \A q \in sesiones' : q.id = r.id => q.revoked = TRUE]_vars

(* C4: once (account, token) has been revoked, every later request carrying
   that token with a valid credential is rejected by the Auth Gate, whatever
   happened in between (time, other requests, logins with other tokens). *)
C4_RevokedNeverValidates ==
    [][\A c \in revokedEver :
          (\E ep \in Endpoints : Request(c[1], "valid", c[2], ep)) => last'.status = 401]_vars

(* C5: a login with an (account, token) whose row already exists leaves the
   account's active count unchanged and neither revokes nor removes any other
   active session of the account. *)
C5_RenewalIsNotEviction ==
    [][\A c \in clients :
          (RowsOf(sesiones, c[1], c[2]) # {} /\ Login(c[1], c[2])) =>
             /\ Cardinality(ActiveRows(sesiones', c[1], now'))
                   = Cardinality(ActiveRows(sesiones, c[1], now))
             /\ \A r \in ActiveRows(sesiones, c[1], now) :
                   r.session_id # c[2] => r \in sesiones']_vars

(* C6: when an account has exactly limit(role) active sessions with pairwise
   distinct last_seen and a token without a row is admitted, exactly one
   session is revoked, the one with the smallest last_seen; every other active
   session is left as it was, and the new session is inserted. *)
C6_LruEviction ==
    [][\A c \in clients :
          LET active == ActiveRows(sesiones, c[1], now)
              oldest == CHOOSE r \in active : \A q \in active : r.last_seen <= q.last_seen
          IN  ( /\ AdmissionStep(c[1], c[2])
                /\ RowsOf(sesiones, c[1], c[2]) = {}
                /\ Cardinality(active) = RoleLimit(c[1])
                /\ \A r, q \in active : r # q => r.last_seen # q.last_seen )
              => /\ NewlyRevoked(sesiones, sesiones') = {oldest}
                 /\ \A r \in active \ {oldest} : r \in sesiones'
                 /\ \E n \in RowsOf(sesiones', c[1], c[2]) : IsActive(n, now')]_vars

W6_LruEviction ==
    \E a, b, n \in sesiones :
        /\ a.user_id = 1 /\ b.user_id = 1 /\ n.user_id = 1
        /\ a.revoked /\ ~b.revoked /\ ~n.revoked
        /\ a.last_seen < b.last_seen
        /\ n.started_at = now /\ n # b
        /\ last.session_id = n.session_id
        /\ last.revoked_sessions = <<a.session_id>>

(* C7: admitting a token without a row while fewer than limit(role) rows of
   the account are active inserts the new session and revokes nothing. *)
C7_AdmitBelowLimit ==
    [][\A c \in clients :
          ( /\ AdmissionStep(c[1], c[2])
            /\ RowsOf(sesiones, c[1], c[2]) = {}
            /\ Cardinality(ActiveRows(sesiones, c[1], now)) < RoleLimit(c[1]) )
          => /\ NewlyRevoked(sesiones, sesiones') = {}
             /\ \A r \in ActiveRows(sesiones, c[1], now) : r \in sesiones'
             /\ \E n \in RowsOf(sesiones', c[1], c[2]) : IsActive(n, now')]_vars

W7_AdmitBelowLimit ==
    \E b, n \in sesiones :
        /\ b.user_id = 1 /\ n.user_id = 1 /\ b # n
        /\ ~b.revoked /\ ~n.revoked
        /\ b.started_at < n.started_at /\ n.started_at = now
        /\ Cardinality(sesiones) = 2
        /\ last.session_id = n.session_id
        /\ last.revoked_sessions = <<>>

(* C8: a row with revoked = false whose last_seen is older than TTL(role) is
   not in the active set read by admission, not in the active-session listing,
   and a request carrying its token is rejected with 401. *)
C8_ExpiredIsExcluded ==
    \A r \in sesiones :
        (r.revoked = FALSE /\ r.last_seen < now - TTL(r.user_id)) =>
           /\ r \notin SelectActive(sesiones, r.user_id,
                                    now - getSessionTtlMsForRole(usuarios[r.user_id]))
           /\ r \notin ListActiveSessions(sesiones, now)
           /\ validateSession(sesiones, r.user_id, r.session_id, usuarios[r.user_id], now).ok = FALSE
           /\ \A gate \in authenticateToken(sesiones, "valid", r.user_id, r.session_id, now) :
                 gate.next = FALSE /\ gate.status = 401

W8_ExpiredIsExcluded ==
    /\ \E r \in sesiones : r.revoked = FALSE /\ r.last_seen < now - TTL(r.user_id)
    /\ last.status = 401
    /\ last.error = "Sesion expirada"

(* C9: the Auth Gate takes the 'missing' branch, which admits a session and
   lets the request proceed, exactly for requests that carry no session token. *)
C9_MissingMeansNoToken ==
    [][\A uid \in Accounts : \A sid \in SessionIdsOf(uid) :
          Request(uid, "valid", sid, PlainEndpoint) =>
             /\ (validateReason(sesiones, uid, sid, usuarios[uid], now) = "missing")
                   <=> (sid = NoSession)
             /\ (sid # NoSession /\ RowsOf(sesiones, uid, sid) = {})
                   => RowsOf(sesiones', uid, sid) = {}]_vars

(* C10: a login with valid credentials carrying token t answers 200 with
   session.session_id = t and revoked_sessions listing exactly the tokens of
   the rows this login revoked. *)
C10_LoginResponse ==
    [][\A c \in clients :
          Login(c[1], c[2]) =>
             /\ last'.status = 200
             /\ last'.session_id = c[2]
             /\ SeqToSet(last'.revoked_sessions)
                   = {r.session_id : r \in NewlyRevoked(sesiones, sesiones')}
             /\ Len(last'.revoked_sessions)
                   = Cardinality(NewlyRevoked(sesiones, sesiones'))]_vars

W10_LoginResponse ==
    /\ last.status = 200
    /\ last.login_log = "success"
    /\ last.session_id \in Tokens
    /\ last.revoked_sessions # <<>>
    /\ \E r \in sesiones : r.revoked /\ r.session_id = last.revoked_sessions[1]

(* C11: an account never has two rows with the same session_id, also when
   two admissions of the same (account, token) without a row interleave at
   the granularity of the queries of upsertSession and both find no existing
   row before either inserts. *)
C11_UniqueToken ==
    \A r, q \in sesiones :
        (r.user_id = q.user_id /\ r.session_id = q.session_id) => r = q

\* the second INSERT of two admissions of one token was rejected by the index
W11_UniqueToken ==
    /\ last.status \in {500, 403}
    /\ last.error \in {"Error del servidor", "Token invalido"}
    /\ \E p, q \in Procs : p # q /\ procs[p] = DoneProc /\ procs[q] = DoneProc
    /\ \E r \in sesiones : r.started_at = now /\ r.revoked = FALSE

\* the rows of account uid
UserRows(db, uid) == {r \in db : r.user_id = uid}

\* the account on whose behalf request p takes the step (NoUser if the
\* request was answered before it reached the table)
ActorOf(p) ==
    IF procs[p].pc \notin {"idle", "done"} THEN procs[p].uid
    ELSE IF procs'[p].pc \notin {"idle", "done"} THEN procs'[p].uid
    ELSE NoUser

(* C12: a step of a touch or of an admission made for one account, in any
   interleaving with those of another account, leaves every row of the other
   account and its number of active sessions as they were, also when the two
   accounts carry the same session token string. *)
C12_CrossAccountFrame ==
    [][\A p \in Procs :
          procs'[p] # procs[p] =>
             \A b \in Accounts \ {ActorOf(p)} :
                /\ UserRows(sesiones', b) = UserRows(sesiones, b)
                /\ Cardinality(ActiveRows(sesiones', b, now'))
                      = Cardinality(ActiveRows(sesiones, b, now))]_vars

\* both accounts hold a row of the same token; the client's was evicted by
\* an admission of the client account and the admin's was touched, and the
\* admin's row is still active
W12_CrossAccountFrame ==
    \E a, c \in sesiones :
        /\ a.user_id = 1 /\ c.user_id = 2
        /\ a.session_id = c.session_id
        /\ c.revoked
        /\ a.last_seen > a.started_at
        /\ IsActive(a, now)

(* C13: a revocation by an admin whose own session is valid sets
   revoked = true on exactly one row, a row of the targeted session, and
   leaves every other row as it was (the caller's own row is touched by the
   Auth Gate before), also when rows of other accounts carry the same
   session_id. *)
C13_AdminRevokesOneRow ==
    [][\A uid \in Accounts : \A sid \in SessionIdsOf(uid) : \A t \in Tokens :
          ( /\ Request(uid, "valid", sid, [kind |-> "revoke", target |-> t])
            /\ validateReason(sesiones, uid, sid, usuarios[uid], now) = "ok"
            /\ last'.status = 200 )
          => LET gated == validateSession(sesiones, uid, sid, usuarios[uid], now).db
             IN  \E r \in gated : /\ r.session_id = t
                                   /\ sesiones' = RevokeById(gated, r.id)]_vars

(* C14: POST /api/logout for an (account, token) whose row exists answers
   200 and leaves the row revoked; called again, when the row is already
   revoked, it answers 200 as well and leaves the table as it was. *)
C14_LogoutIdempotent ==
    [][\A c \in clients :
          ( /\ RowsOf(sesiones, c[1], c[2]) # {}
            /\ Request(c[1], "valid", c[2], [kind |-> "logout", target |-> NoSession]) )
          => /\ last'.status = 200
             /\ \A r \in RowsOf(sesiones', c[1], c[2]) : r.revoked = TRUE
             /\ (\A r \in RowsOf(sesiones, c[1], c[2]) : r.revoked = TRUE)
                   => sesiones' = sesiones]_vars

\* the routes mounted behind requireAdmin
AdminEndpoints == {ep \in Endpoints : ep.kind \in {"sessions", "revoke"}}

(* C15: a request to an admin-gated route by a caller whose role in usuarios
   is not admin never executes the operation: when the caller passes the Auth
   Gate the answer is 403, and the request changes the revoked flag of no
   row. *)
C15_AdminGate ==
    [][\A uid \in Accounts : \A sid \in SessionIdsOf(uid) : \A ep \in AdminEndpoints :
          ( /\ usuarios[uid] # "admin"
            /\ Request(uid, "valid", sid, ep) )
          => /\ last'.status # 200
             /\ validateReason(sesiones, uid, sid, usuarios[uid], now) \in {"ok", "missing"}
                   => last'.status = 403
             /\ \A r \in sesiones : \A q \in sesiones' :
                   q.id = r.id => q.revoked = r.revoked]_vars

(* C17: a request that passes the Auth Gate with a session that is neither
   revoked nor stale leaves that session's last_seen equal to the current
   time, and no step decreases the last_seen of a row that is not revoked. *)
C17_TouchOnPass ==
    [][/\ \A uid \in Accounts : \A sid \in SessionIdsOf(uid) :
             \/ validateReason(sesiones, uid, sid, usuarios[uid], now) # "ok"
             \/ /\ RowsOf(sesiones', uid, sid) # {}
                /\ \A r \in RowsOf(sesiones', uid, sid) : r.last_seen = now
             \/ \A ep \in Endpoints : ~Request(uid, "valid", sid, ep)
       /\ \A r \in sesiones : \A q \in sesiones' :
             (q.id = r.id /\ r.revoked = FALSE) => q.last_seen >= r.last_seen]_vars

\* a request has passed the gate after the clock moved and its session,
\* started earlier, was touched
W17_TouchOnPass ==
    /\ last.status = 200
    /\ last.login_log = "none"
    /\ \E r \in sesiones :
          r.revoked = FALSE /\ r.started_at < now /\ r.last_seen = now

\* the rows of db reduced to what admission and revocation write: which
\* rows exist and their revoked flags
RevokedFlags(db) == {[id |-> r.id, revoked |-> r.revoked] : r \in db}

\* the step is an admission (a login, or a request whose token has no row
\* and is admitted by the gate) or a revocation (logout, admin revoke) whose
\* handler the gate let run
AdmissionOrRevocation ==
    \/ \E c \in clients : Login(c[1], c[2])
    \/ \E c \in clients :
          /\ validateReason(sesiones, c[1], c[2], usuarios[c[1]], now) = "missing"
          /\ \E ep \in Endpoints : Request(c[1], "valid", c[2], ep)
    \/ \E c \in clients : \E ep \in Endpoints :
          /\ ep.kind \in {"logout", "revoke"}
          /\ validateReason(sesiones, c[1], c[2], usuarios[c[1]], now) = "ok"
          /\ Request(c[1], "valid", c[2], ep)

(* C18: a step inserts a row, deletes a row or writes a revoked flag only if
   it is an admission (login or self-heal, with its eviction) or a revocation
   (logout, admin revoke); the validation and touch of a request, accepted or
   rejected, does none of these. *)
C18_WritersOfRevoked ==
    [][RevokedFlags(sesiones') = RevokedFlags(sesiones) \/ AdmissionOrRevocation]_vars

\* a request was rejected for its revoked session while another session of
\* the account has been touched
W18_WritersOfRevoked ==
    /\ last.status = 401
    /\ last.error = "Sesion revocada"
    /\ \E r, q \in sesiones :
          /\ r.revoked = TRUE
          /\ q.revoked = FALSE /\ q.last_seen > q.started_at

(* C19: when a query on the database fails while the Auth Gate validates a
   request or while a login or a self-heal admission is under way, the
   request is answered with a non-2xx status, the route handler does not act
   on the caller's session, and no session is reported to the caller. *)
C19_FailClosed ==
    [][\A uid \in Accounts : \A sid \in SessionIdsOf(uid) :
          /\ \A q \in GateQueries :
                (\E ep \in ThrowEndpoints : RequestThrows(uid, sid, ep, q))
                => /\ last'.status \notin 200..299
                   /\ last'.session_id = NoSession
                   /\ RowsOf(sesiones', uid, sid) = RowsOf(sesiones, uid, sid)
          /\ \A q \in LoginQueries :
                LoginThrows(uid, sid, q)
                => /\ last'.status \notin 200..299
                   /\ last'.session_id = NoSession
                   /\ last'.login_log # "success"
                   /\ \A r \in RowsOf(sesiones', uid, sid) :
                         r \in RowsOf(sesiones, uid, sid)]_vars

\* a login was refused with 500 after its eviction had been carried out:
\* the INSERT threw
W19_FailClosed ==
    /\ last.status = 500
    /\ last.error = "Error del servidor"
    /\ \E r \in sesiones : r.revoked = TRUE /\ r.last_seen = now
    /\ \A r \in sesiones : r.revoked = TRUE

(* C16: a heartbeat of a logged-in tab touches the row of its (account,
   token) in sesiones, so that the row's last_seen is the current time
   afterwards, and the tab is told to stay logged in exactly when that row
   is active (not revoked, not stale) on the server. *)
C16_HeartbeatTouchesStore ==
    [][\A tab \in Tabs :
          HeartbeatTick(tab) =>
             LET u == browser.tabs[tab].user
                 mine == {r \in RowsOf(sesiones, u, BrowserSessionId) : IsActive(r, now)}
             IN  /\ mine # {} =>
                       \E q \in RowsOf(sesiones', u, BrowserSessionId) : q.last_seen = now
                 /\ (browser'.tabs[tab].user # NoUser) <=> (mine # {})]_vars

\* the tab is logged in and the list in localStorage has no fresh entry of
\* the browser's sessionId for its user
TokenAbsent(tab) ==
    /\ browser.tabs[tab].user # NoUser
    /\ \A x \in pruneSessions(browser.sessions[browser.tabs[tab].user], now) :
          x.id # BrowserSessionId

\* a step of tab: one of its handlers or timers runs
TabStep(tab) ==
    \/ \E uid \in Accounts : TabLogin(tab, uid)
    \/ PageLoad(tab)
    \/ TabLogout(tab)
    \/ HeartbeatTick(tab)
    \/ StorageEvent(tab)

(* C20: every write of a tab that changes the shared list wakes the storage
   listener of every other logged-in tab, and a logged-in tab whose token is
   not in the list of its user when its storage listener runs or its
   heartbeat timer fires is logged out by force: it shows the login page and
   token and user are removed from localStorage. *)
C20_ForcedLogout ==
    [][\A tab \in Tabs :
          /\ (TokenAbsent(tab) /\ (StorageEvent(tab) \/ HeartbeatTick(tab)))
                => /\ browser'.tabs[tab].user = NoUser
                   /\ browser'.token = NoUser
          /\ (browser'.sessions # browser.sessions /\ TabStep(tab))
                => \A other \in Tabs \ {tab} :
                      browser.tabs[other].user # NoUser => browser'.tabs[other].pending]_vars

\* a tab is logged in and its storage listener has been woken because the
\* other tab logged out and cleared the entry they share
W20_ForcedLogout ==
    \E tab, other \in Tabs :
        /\ tab # other
        /\ TokenAbsent(tab)
        /\ browser.tabs[tab].pending
        /\ browser.tabs[other].user = NoUser
        /\ browser.token = NoUser
        /\ last.status = 200

\* the session ids the list in localStorage holds as active for account uid,
\* and those the sesiones table holds as active
MirrorActive(uid) == {x.id : x \in pruneSessions(browser.sessions[uid], now)}
ServerActive(uid) == {r.session_id : r \in ActiveRows(sesiones, uid, now)}

(* C21: registerSessionForUser follows upsertSession: after any history of
   logins from the browser and of elapsed time, the sessions the list in
   localStorage holds as active for an account are those the sesiones table
   holds as active for it. *)
C21_MirrorEqualsServer ==
    \A uid \in Accounts : MirrorActive(uid) = ServerActive(uid)

(* C22: once the server has revoked the session of the browser for the
   account whose credential the browser holds, and no login with it has
   taken place since, while the list in localStorage still holds it as
   active, the next request of a tab is rejected by the server and leaves
   the tab at the login page with token and user removed. *)
C22_MirrorGrantsNothing ==
    [][\A tab \in Tabs :
          ( /\ browser.token # NoUser
            /\ <<browser.token, BrowserSessionId>> \in revokedEver
            /\ BrowserSessionId \in MirrorActive(browser.token)
            /\ TabRequest(tab) )
          => /\ last'.status \in {401, 403}
             /\ browser'.token = NoUser
             /\ browser'.tabs[tab].user = NoUser]_vars

(* C23: when several active sessions of the account share the smallest
   last_seen and a token without a row is admitted at the limit, the session
   that is revoked is the one of them with the earliest started_at. *)
C23_TieBreakByStart ==
    [][\A c \in clients :
          LET active == ActiveRows(sesiones, c[1], now)
          IN  ( /\ RowsOf(sesiones, c[1], c[2]) = {}
                /\ Cardinality(active) = RoleLimit(c[1])
                /\ AdmissionStep(c[1], c[2]) )
              => \A r \in NewlyRevoked(sesiones, sesiones') :
                    \A q \in active :
                        q.last_seen = r.last_seen => r.started_at <= q.started_at]_vars

(* C24: the steps of an admission are all-or-nothing: when the INSERT of an
   admission does not take place because the query fails, no session that
   existed before has been revoked on behalf of that admission. *)
C24_AdmissionAtomic ==
    [][\A c \in clients :
          ( \/ LoginThrows(c[1], c[2], "insert")
            \/ \E ep \in ThrowEndpoints : RequestThrows(c[1], c[2], ep, "insert") )
          => /\ RowsOf(sesiones', c[1], c[2]) = {}
             /\ NewlyRevoked(sesiones, sesiones') = {}]_vars

(* C25: a touch (the UPDATE of validateSession) and a revoke of the same
   token, interleaved query by query in either order, never leave the session
   active once both have completed: the touch of a revoked row leaves it
   revoked, and the revoke of a touched row makes it inactive; and no touch
   changes the active count of any account. *)
C25_TouchCommutes ==
    [][\A p \in Procs :
          /\ Touch(p) =>
                /\ \A r \in sesiones : r.revoked =>
                      \A q \in sesiones' : q.id = r.id => ~IsActive(q, now')
                /\ \A uid \in Accounts :
                      Cardinality(ActiveRows(sesiones', uid, now'))
                         = Cardinality(ActiveRows(sesiones, uid, now))
          /\ (procs[p].pc = "handler" /\ HandlerStep(p) /\ procs[p].ep.kind = "logout") =>
                \A q \in RowsOf(sesiones', procs[p].uid, procs[p].sid) :
                   ~IsActive(q, now')]_vars

(* C26: immediately after a successful login carrying session token t,
   whatever the row of t was before (none, active, expired or revoked), the
   row (account, t) exists, is the only one, is non-revoked and fresh, and a
   request presenting the issued credential together with t passes the Auth
   Gate. *)
C26_LoginAdmits ==
    [][\A c \in clients :
          Login(c[1], c[2]) =>
             /\ Cardinality(RowsOf(sesiones', c[1], c[2])) = 1
             /\ \A r \in RowsOf(sesiones', c[1], c[2]) : IsActive(r, now')
             /\ \A gate \in authenticateToken(sesiones', "valid", c[1], c[2], now') :
                   gate.next /\ gate.reason = "ok"]_vars

\* a login has just renewed the row of a token that had been evicted
W26_LoginAdmits ==
    \E r, q \in sesiones :
        /\ r.user_id = 2 /\ q.user_id = 2 /\ r # q
        /\ IsActive(r, now) /\ IsActive(q, now)
        /\ r.started_at <= q.started_at
        /\ last.login_log = "success"
        /\ last.session_id = r.session_id
        /\ last.revoked_sessions = <<>>

(* C27: a login attempt that fails credential verification (unknown user or
   wrong password), with or without a session token in its headers, leaves
   sesiones as it was: no row is inserted, revoked, touched or pruned; the
   only record written is the login attempt, with success = false. *)
C27_FailedLoginFrame ==
    [][\A uid \in Accounts \cup {NoUser} : \A sid \in Tokens \cup {NoSession} :
          LoginRejected(uid, sid) =>
             /\ sesiones' = sesiones
             /\ last'.status = 401
             /\ last'.login_log = "failure"]_vars

\* a failed login has just been answered while the table holds a stale row
\* and a revoked one
W27_FailedLoginFrame ==
    /\ last.login_log = "failure"
    /\ \E r \in sesiones : r.revoked = FALSE /\ r.last_seen < now - TTL(r.user_id)
    /\ \E r \in sesiones : r.revoked = TRUE

(* C28: an admission of a token that has no row (or only a stale one, which
   the DELETE removes) revokes exactly max(0, |active| - limit(role) + 1)
   sessions of the account's active set, none of them seen later than a
   session it keeps, and after the insert the account has exactly
   min(|active| + 1, limit(role)) active rows, also when it had more than
   limit(role) active rows beforehand. *)
C28_EvictionCount ==
    [][\A c \in clients :
          LET active == ActiveRows(sesiones, c[1], now)
              n == Cardinality(active)
              lim == RoleLimit(c[1])
              revoked == NewlyRevoked(sesiones, sesiones')
          IN  ( \/ RowsOf(sesiones, c[1], c[2]) = {} /\ AdmissionStep(c[1], c[2])
                \/ /\ \A r \in RowsOf(sesiones, c[1], c[2]) : r.last_seen < now - TTL(c[1])
                   /\ Login(c[1], c[2]) )
              => /\ Cardinality(revoked) = (IF n - lim + 1 > 0 THEN n - lim + 1 ELSE 0)
                 /\ revoked \subseteq active
                 /\ \A r \in revoked : \A q \in active \ revoked : r.last_seen <= q.last_seen
                 /\ Cardinality(ActiveRows(sesiones', c[1], now'))
                       = (IF n + 1 < lim THEN n + 1 ELSE lim)]_vars

\* an admission has just revoked two sessions of the client account at once
W28_EvictionCount ==
    /\ Len(last.revoked_sessions) = 2
    /\ Cardinality({r \in sesiones : r.user_id = 2 /\ r.revoked}) = 2
    /\ Cardinality(ActiveRows(sesiones, 2, now)) = 1

(* C29: once a request carrying (account, token) has been rejected as
   expired, no later request other than a login lets that token through the
   Auth Gate, whatever happens in between (time, other requests, logins with
   other tokens, which prune stale rows); only a login with the token makes it
   active again. *)
C29_ExpiredStaysOut ==
    [][\A c \in expiredEver : \A ep \in ThrowEndpoints :
          ExpiryRequest(c[1], c[2], ep) =>
             /\ last'.status = 401
             /\ \A r \in RowsOf(sesiones', c[1], c[2]) : ~IsActive(r, now')]_vars

(* C30: a request other than a login, to a route behind the Auth Gate that
   is not the admin's revocation (a plain route, logout, the session
   listing), never revokes or removes from the active set a session other
   than the one of the caller's own (account, token). *)
C30_RequestFrame ==
    [][\A uid \in Accounts : \A sid \in SessionIdsOf(uid) :
          \A ep \in {e \in Endpoints : e.kind # "revoke"} :
             Request(uid, "valid", sid, ep) =>
                \A r \in sesiones :
                   (IsActive(r, now) /\ ~(r.user_id = uid /\ r.session_id = sid))
                      => \E q \in sesiones' : q.id = r.id /\ IsActive(q, now')]_vars

====
